---- MODULE Spec2Model ----
(***************************************************************************)
(* Model of pdftomarkd/__main__.py: the converter pdf_to_markdown, the     *)
(* polling watcher watch_folder and the command-line entry point main.     *)
(*                                                                         *)
(* Three state machines share the variables below.                         *)
(*   SpecConv  one call of pdf_to_markdown, stepped through its loops; the *)
(*             PDF engine yields pages, blocks, lines and spans one at a   *)
(*             time and every engine or I/O call may raise.                *)
(*   Spec      one run of main(): batch mode over a list of paths, or      *)
(*             watch mode, with the file system changed by other programs  *)
(*             and the user's interrupt signal.                            *)
(*   FairSpec  Spec with the watcher's steps scheduled fairly.             *)
(***************************************************************************)
EXTENDS Integers, Sequences, FiniteSets, TLC

VARIABLES
    \* ---- pdf_to_markdown (one call) ----
    cpc,                 \* position in pdf_to_markdown
    output_path,         \* the destination argument (NoPath when absent)
    preserve_formatting, \* the flag argument
    doc,                 \* the document handle: "unopened", "open", "closed"
    markdown_content,    \* list of fragments
    paragraph,           \* list of line strings of the current block
    line_text,           \* list of span strings of the current line
    page_num,            \* enumerate(doc, start=1)
    img_left,            \* images of the current page still to extract
    img_index,           \* enumerate(image_list, start=1)
    markdown_text,       \* "".join(markdown_content)
    returned,            \* "no", "text" (returns markdown_text), "None"
    dest_written,        \* output_path.write_text happened
    image_files,         \* paths of the image files written
    raised_at,           \* where an exception was raised ("" when none)
    src,                 \* what the PDF engine has yielded so far (the document read)
    \* ---- main and watch_folder ----
    args,                \* parsed command line
    mpc,                 \* position in main
    idx,                 \* index of the current input in args.pdf
    output_file,         \* output resolved for the current input
    failed_files,        \* list of inputs that failed
    successful_files,    \* list of inputs that converted
    exit_code,           \* value returned by main / process status (-1 while running)
    crash,               \* "", "exception" or "interrupt": what escaped main uncaught
    outputs,             \* per converted input index, the output path written
    fs,                  \* the watched folder: file name -> "absent", "empty", "data"
    md_exists,           \* stems whose .md exists in the output directory
    wpc,                 \* position in watch_folder
    seen_files,          \* the watcher's set of seen paths
    todo,                \* files of the current glob / new_files still to iterate
    cur,                 \* the file the loop body is working on
    slept,               \* the settling sleep of the current loop body has elapsed
    calls,               \* per file, number of pdf_to_markdown invocations in this session
    completed,           \* per file, number of invocations that returned
    late,                \* files first created while the polling loop was running
    zero_seen,           \* files the polling loop has found with size zero
    interrupted          \* a KeyboardInterrupt was delivered

convVars == <<cpc, output_path, preserve_formatting, doc, markdown_content, paragraph,
              line_text, page_num, img_left, img_index, markdown_text, returned,
              dest_written, image_files, raised_at, src>>

mainVars == <<args, mpc, idx, output_file, failed_files, successful_files, exit_code,
              crash, outputs>>

watchVars == <<fs, md_exists, wpc, seen_files, todo, cur, slept, calls, completed,
               late, zero_seen, interrupted>>

vars == <<convVars, mainVars, watchVars>>

----
(***************************************************************************)
(* Bounds of the model.                                                    *)
(***************************************************************************)
MaxNodes == 4
MaxArgs == 2
MaxCalls == 2

----
(***************************************************************************)
(* Paths.  A path is a record [parent, stem, suffix]; "." is the current   *)
(* directory.                                                              *)
(***************************************************************************)
NoPath == [parent |-> "", stem |-> "", suffix |-> ""]

PathStr(p) ==
    (IF p.parent \in {"", "."} THEN "" ELSE p.parent \o "/") \o p.stem \o p.suffix

\* Path(".")
CurDir == [parent |-> "", stem |-> ".", suffix |-> ""]

\* path / name, for a directory path and a file name [stem, suffix]
Child(dir, stem, suffix) ==
    [parent |-> PathStr(dir), stem |-> stem, suffix |-> suffix]

\* RECURSIVE "sep".join(list)
RECURSIVE Join(_, _)
Join(list, sep) ==
    IF list = <<>> THEN ""
    ELSE IF Len(list) = 1 THEN list[1]
    ELSE list[1] \o sep \o Join(Tail(list), sep)

----
(***************************************************************************)
(* pdf_to_markdown                                                         *)
(***************************************************************************)
BoldBit == 16
ItalicBit == 2

\* flags & bit, for bit a power of two
BitSet(flags, bit) == (flags \div bit) % 2 = 1

FormatSpanSwappedBits(text, flags) ==
    LET t1 == IF BitSet(flags, ItalicBit) THEN "**" \o text \o "**" ELSE text
    IN  IF BitSet(flags, BoldBit) THEN "*" \o t1 \o "*" ELSE t1

\* lines 60-67: the span's text with the emphasis its flags ask for
FormatSpan(text, flags) ==
    LET t1 == IF BitSet(flags, BoldBit) THEN "**" \o text \o "**" ELSE text
    IN  IF BitSet(flags, ItalicBit) THEN "*" \o t1 \o "*" ELSE t1

\* The spans the PDF engine may yield: neither bit set (other style bits are:
\* superscript 1, serif 4), bold, italic, and both with another bit beside them.
Spans ==
    { [text |-> "a", flags |-> 5],  [text |-> "b", flags |-> 16],
      [text |-> "c", flags |-> 2],  [text |-> "d", flags |-> 22] }

MetaValues == {"", "T"}

\* A page's plain text is a sequence of characters.
Chars == {"a", " ", "\n"}
Whitespace == {" ", "\n"}

RECURSIVE SeqsUpTo(_, _)
SeqsUpTo(S, n) ==
    IF n = 0 THEN {<<>>}
    ELSE LET shorter == SeqsUpTo(S, n - 1)
         IN  shorter \cup {Append(s, c) : s \in {t \in shorter : Len(t) = n - 1}, c \in S}

RECURSIVE LStrip(_)
LStrip(cs) == IF cs # <<>> /\ Head(cs) \in Whitespace THEN LStrip(Tail(cs)) ELSE cs

RECURSIVE RStrip(_)
RStrip(cs) ==
    IF cs # <<>> /\ cs[Len(cs)] \in Whitespace
    THEN RStrip(SubSeq(cs, 1, Len(cs) - 1)) ELSE cs

StripNothing(cs) == cs

\* str.strip()
Strip(cs) == RStrip(LStrip(cs))

\* the characters as one string
Str(cs) == Join(cs, "")

ImageExts == {"png"}

ImageName(p, i, ext) ==
    "image_page" \o ToString(p) \o "_" \o ToString(i) \o "." \o ext

\* line 91: Path(output_path).parent if Path(output_path).suffix else Path(output_path)
ImageDir(path) == IF path.suffix # "" THEN path.parent ELSE PathStr(path)

ImageRef(name) == "![" \o name \o "](" \o name \o ")\n\n"

\* lines 39-46
HeaderFragments(title, author, subject) ==
    (IF title # "" THEN <<"# " \o title \o "\n\n">> ELSE <<>>)
    \o (IF author # "" THEN <<"**Author:** " \o author \o "\n\n">> ELSE <<>>)
    \o (IF subject # "" THEN <<"**Subject:** " \o subject \o "\n\n">> ELSE <<>>)
    \o << "---\n\n" >>

\* The document as read so far: metadata, finished pages and the open page,
\* block and line; nodes is the size of the document read: its pages plus the
\* leaves of its tree (spans, lines without spans, blocks without lines, image
\* blocks, embedded images, characters of plain text).
NoDoc ==
    [title |-> "", author |-> "", subject |-> "",
     pages |-> <<>>, blocks |-> <<>>, lines |-> <<>>, spans |-> <<>>,
     images |-> 0, nodes |-> 0]

ConvUnchangedOthers == UNCHANGED <<mainVars, watchVars>>

ConvUnchangedLoop ==
    /\ UNCHANGED <<output_path, preserve_formatting, doc, markdown_text, returned,
                   dest_written, image_files, raised_at>>
    /\ ConvUnchangedOthers

\* line 34-35: fitz.open succeeds
Open ==
    /\ cpc = "open"
    /\ doc' = "open"
    /\ markdown_content' = <<>>
    /\ cpc' = "meta"
    /\ UNCHANGED <<output_path, preserve_formatting, paragraph, line_text, page_num,
                   img_left, img_index, markdown_text, returned, dest_written,
                   image_files, raised_at, src>>
    /\ ConvUnchangedOthers

\* lines 38-46: metadata header and separator
ReadMetadata ==
    /\ cpc = "meta"
    /\ \E title \in MetaValues, author \in MetaValues, subject \in MetaValues :
          /\ markdown_content' = markdown_content \o HeaderFragments(title, author, subject)
          /\ src' = [src EXCEPT !.title = title, !.author = author, !.subject = subject]
    /\ cpc' = "pages"
    /\ UNCHANGED <<paragraph, line_text, page_num, img_left, img_index>>
    /\ ConvUnchangedLoop

\* line 49: the next page of the document; the page holds n embedded images
NextPage ==
    /\ cpc = "pages"
    /\ src.nodes < MaxNodes
    /\ page_num' = page_num + 1
    /\ \E n \in 0..(MaxNodes - src.nodes - 1) :
          src' = [src EXCEPT !.nodes = @ + 1 + n, !.images = n, !.blocks = <<>>]
    /\ cpc' = IF preserve_formatting THEN "blocks" ELSE "plain"
    /\ UNCHANGED <<markdown_content, paragraph, line_text, img_left, img_index>>
    /\ ConvUnchangedLoop

\* lines 54-56: the next block of page.get_text("dict"); a block without "lines"
\* (an image block) is passed over
NextBlock ==
    /\ cpc = "blocks"
    /\ src.nodes < MaxNodes
    /\ \E isText \in BOOLEAN :
          IF isText
          THEN /\ paragraph' = <<>>
               /\ cpc' = "lines"
               /\ src' = [src EXCEPT !.lines = <<>>]
          ELSE /\ UNCHANGED <<paragraph, cpc>>
               /\ src' = [src EXCEPT !.nodes = @ + 1,
                                     !.blocks = Append(@, [text |-> FALSE, lines |-> <<>>])]
    /\ UNCHANGED <<markdown_content, line_text, page_num, img_left, img_index>>
    /\ ConvUnchangedLoop

\* lines 57-58: the next line of the block
NextLine ==
    /\ cpc = "lines"
    /\ src.nodes < MaxNodes
    /\ line_text' = <<>>
    /\ cpc' = "spans"
    /\ src' = [src EXCEPT !.spans = <<>>]
    /\ UNCHANGED <<markdown_content, paragraph, page_num, img_left, img_index>>
    /\ ConvUnchangedLoop

\* lines 59-69: the next span of the line
NextSpan ==
    /\ cpc = "spans"
    /\ src.nodes < MaxNodes
    /\ \E span \in Spans :
          /\ line_text' = Append(line_text, FormatSpan(span.text, span.flags))
          /\ src' = [src EXCEPT !.nodes = @ + 1, !.spans = Append(@, span)]
    /\ UNCHANGED <<cpc, markdown_content, paragraph, page_num, img_left, img_index>>
    /\ ConvUnchangedLoop

\* lines 71-72: the line's spans are exhausted
EndLine ==
    /\ cpc = "spans"
    /\ paragraph' = IF line_text # <<>> THEN Append(paragraph, Join(line_text, ""))
                    ELSE paragraph
    /\ src' = [src EXCEPT !.lines = Append(@, src.spans),
                          !.nodes = IF src.spans = <<>> THEN @ + 1 ELSE @]
    /\ cpc' = "lines"
    /\ UNCHANGED <<markdown_content, line_text, page_num, img_left, img_index>>
    /\ ConvUnchangedLoop

\* lines 74-75: the block's lines are exhausted
EndBlock ==
    /\ cpc = "lines"
    /\ markdown_content' = IF paragraph # <<>>
                           THEN Append(markdown_content, Join(paragraph, " ") \o "\n\n")
                           ELSE markdown_content
    /\ src' = [src EXCEPT !.blocks = Append(@, [text |-> TRUE, lines |-> src.lines]),
                          !.nodes = IF src.lines = <<>> THEN @ + 1 ELSE @]
    /\ cpc' = "blocks"
    /\ UNCHANGED <<paragraph, line_text, page_num, img_left, img_index>>
    /\ ConvUnchangedLoop

\* lines 83-84: the page's blocks are exhausted (or its plain text taken); with a
\* destination the page's image list is read
PageImages(plain) ==
    /\ img_left' = IF output_path # NoPath THEN src.images ELSE 0
    /\ img_index' = 0
    /\ src' = [src EXCEPT !.nodes = @ + Len(plain),
                          !.pages = Append(@, [blocks |-> src.blocks, plain |-> plain,
                                               images |-> src.images])]
    /\ cpc' = "images"

EndBlocks ==
    /\ cpc = "blocks"
    /\ PageImages(<<>>)
    /\ UNCHANGED <<markdown_content, paragraph, line_text, page_num>>
    /\ ConvUnchangedLoop

\* lines 78-80: simple extraction of the page's plain text
PlainPage ==
    /\ cpc = "plain"
    /\ \E text \in SeqsUpTo(Chars, MaxNodes - src.nodes) :
          /\ markdown_content' = IF Strip(text) # <<>>
                                 THEN Append(markdown_content, Str(text) \o "\n\n")
                                 ELSE markdown_content
          /\ PageImages(text)
    /\ UNCHANGED <<paragraph, line_text, page_num>>
    /\ ConvUnchangedLoop

\* lines 85-94: one embedded image extracted, written and referenced
ExtractImage ==
    /\ cpc = "images"
    /\ img_left > 0
    /\ \E ext \in ImageExts :
          LET image_name == ImageName(page_num, img_index + 1, ext)
          IN  /\ image_files' = image_files \cup {ImageDir(output_path) \o "/" \o image_name}
              /\ markdown_content' = Append(markdown_content, ImageRef(image_name))
    /\ img_index' = img_index + 1
    /\ img_left' = img_left - 1
    /\ UNCHANGED <<cpc, output_path, preserve_formatting, doc, paragraph, line_text,
                   page_num, markdown_text, returned, dest_written, raised_at, src>>
    /\ ConvUnchangedOthers

\* line 85: the image list is exhausted; on to the next page
EndImages ==
    /\ cpc = "images"
    /\ img_left = 0
    /\ cpc' = "pages"
    /\ UNCHANGED <<markdown_content, paragraph, line_text, page_num, img_left, img_index,
                   src>>
    /\ ConvUnchangedLoop

\* line 96: the pages are exhausted
Close ==
    /\ cpc = "pages"
    /\ doc' = "closed"
    /\ cpc' = "join"
    /\ UNCHANGED <<output_path, preserve_formatting, markdown_content, paragraph,
                   line_text, page_num, img_left, img_index, markdown_text, returned,
                   dest_written, image_files, raised_at, src>>
    /\ ConvUnchangedOthers

\* lines 98-106: join, write the destination when given, return the text
JoinWriteReturn ==
    /\ cpc = "join"
    /\ markdown_text' = Join(markdown_content, "")
    /\ dest_written' = (output_path # NoPath)
    /\ returned' = "text"
    /\ cpc' = "done"
    /\ UNCHANGED <<output_path, preserve_formatting, doc, markdown_content, paragraph,
                   line_text, page_num, img_left, img_index, image_files, raised_at, src>>
    /\ ConvUnchangedOthers

\* The places where the PDF engine or the file system is called and may raise:
\* fitz.open (34), doc.metadata (38), page iteration and get_text (49, 52, 78),
\* get_images / extract_image / write_bytes (84-93), write_text (103).
MayRaise ==
    \/ cpc \in {"open", "meta", "pages", "blocks", "plain"}
    \/ cpc = "images" /\ img_left > 0
    \/ cpc = "join" /\ output_path # NoPath

\* lines 108-110: except Exception: log and return None.  The handler does not
\* touch the document handle.
HandleException ==
    /\ returned' = "None"
    /\ raised_at' = cpc
    /\ cpc' = "done"
    /\ UNCHANGED <<output_path, preserve_formatting, doc, markdown_content, paragraph,
                   line_text, page_num, img_left, img_index, markdown_text,
                   dest_written, image_files, src>>
    /\ ConvUnchangedOthers

Raise ==
    /\ MayRaise
    /\ HandleException

OutputPaths ==
    { NoPath,
      [parent |-> "out", stem |-> "a", suffix |-> ".md"],
      [parent |-> ".", stem |-> "outdir", suffix |-> ""] }

ConvStart ==
    /\ cpc = "open"
    /\ doc = "unopened"
    /\ markdown_content = <<>>
    /\ paragraph = <<>>
    /\ line_text = <<>>
    /\ page_num = 0
    /\ img_left = 0
    /\ img_index = 0
    /\ markdown_text = ""
    /\ returned = "no"
    /\ dest_written = FALSE
    /\ image_files = {}
    /\ raised_at = ""
    /\ src = NoDoc

ConvNext ==
    \/ Open
    \/ ReadMetadata
    \/ NextPage
    \/ NextBlock
    \/ NextLine
    \/ NextSpan
    \/ EndLine
    \/ EndBlock
    \/ EndBlocks
    \/ PlainPage
    \/ ExtractImage
    \/ EndImages
    \/ Close
    \/ JoinWriteReturn
    \/ Raise

----
(***************************************************************************)
(* main: the command line                                                  *)
(***************************************************************************)
\* The input paths a command line may name, and the files that exist.
InputPaths ==
    { [parent |-> "x", stem |-> "a", suffix |-> ".pdf"],
      [parent |-> "y", stem |-> "a", suffix |-> ".pdf"],
      [parent |-> "x", stem |-> "b", suffix |-> ".PDF"],
      [parent |-> "x", stem |-> "c", suffix |-> ".txt"],
      [parent |-> "x", stem |-> "m", suffix |-> ".pdf"] }

OnDisk == {p \in InputPaths : p.stem # "m"}

\* -o: absent, a name without a suffix, a name with one
OutputArgs ==
    { NoPath,
      [parent |-> ".", stem |-> "outdir", suffix |-> ""],
      [parent |-> ".", stem |-> "result", suffix |-> ".md"] }

\* --watch: absent (""), a directory, something that is not a directory
WatchArgs == {"", "inbox", "nodir"}

\* str.lower() on the suffixes above
Lower(suffix) == IF suffix = ".PDF" THEN ".pdf" ELSE suffix

\* Path.exists()
Exists(p) == p \in OnDisk

\* line 269: the output names a file (it has a suffix, or there is one input)
IsFileOutput(output, npdf) == output # NoPath /\ (output.suffix # "" \/ npdf = 1)

\* lines 267-277: the output file of one input
ResolveOutput(pdf_path) ==
    IF IsFileOutput(args.output, Len(args.pdf))
    THEN IF args.output.suffix # "" THEN args.output
         ELSE [args.output EXCEPT !.suffix = ".md"]
    ELSE LET output_dir == IF args.output # NoPath THEN args.output ELSE CurDir
         IN  Child(output_dir, pdf_path.stem, ".md")

MainUnchangedWatch == UNCHANGED <<watchVars, convVars>>

\* An exception or KeyboardInterrupt nobody catches leaves main: the interpreter
\* prints the traceback and the process ends with status 1 (130 for the interrupt).
Uncaught(kind) ==
    /\ crash' = kind
    /\ exit_code' = IF kind = "interrupt" THEN 130 ELSE 1
    /\ mpc' = "exited"

\* lines 236-241: --watch given, watch_folder is called
MainWatch ==
    /\ mpc = "start"
    /\ args.watch # ""
    /\ mpc' = "watch"
    /\ wpc' = "start"
    /\ UNCHANGED <<args, idx, output_file, failed_files, successful_files, exit_code,
                   crash, outputs>>
    /\ UNCHANGED <<fs, md_exists, seen_files, todo, cur, slept, calls, completed, late, zero_seen,
                   interrupted>>
    /\ UNCHANGED convVars

\* lines 245-246: no input: parser.error prints the usage and exits with status 2
MainNoInput ==
    /\ mpc = "start"
    /\ args.watch = ""
    /\ args.pdf = <<>>
    /\ exit_code' = 2
    /\ mpc' = "exited"
    /\ UNCHANGED <<args, idx, output_file, failed_files, successful_files, crash, outputs>>
    /\ MainUnchangedWatch

\* lines 249-253: the loop over the inputs starts
MainBatch ==
    /\ mpc = "start"
    /\ args.watch = ""
    /\ args.pdf # <<>>
    /\ failed_files' = <<>>
    /\ successful_files' = <<>>
    /\ idx' = 1
    /\ mpc' = "file"
    /\ UNCHANGED <<args, output_file, exit_code, crash, outputs>>
    /\ MainUnchangedWatch

\* lines 254-264: a missing input or one without the .pdf extension fails
ValidateInput ==
    /\ mpc = "file"
    /\ idx <= Len(args.pdf)
    /\ LET pdf_path == args.pdf[idx]
       IN  IF ~Exists(pdf_path) \/ Lower(pdf_path.suffix) # ".pdf"
           THEN /\ failed_files' = Append(failed_files, pdf_path)
                /\ idx' = idx + 1
                /\ mpc' = "file"
           ELSE /\ mpc' = "resolve"
                /\ UNCHANGED <<failed_files, idx>>
    /\ UNCHANGED <<args, output_file, successful_files, exit_code, crash, outputs>>
    /\ MainUnchangedWatch

\* lines 267-277: output resolution; mkdir succeeds
ResolveOutputOk ==
    /\ mpc = "resolve"
    /\ output_file' = ResolveOutput(args.pdf[idx])
    /\ mpc' = "convert"
    /\ UNCHANGED <<args, idx, failed_files, successful_files, exit_code, crash, outputs>>
    /\ MainUnchangedWatch

\* lines 272, 276: mkdir raises (the name is a regular file, the parent is read-only);
\* nothing in main catches it
ResolveOutputRaises ==
    /\ mpc = "resolve"
    /\ Uncaught("exception")
    /\ UNCHANGED <<args, idx, output_file, failed_files, successful_files, outputs>>
    /\ MainUnchangedWatch

\* lines 283-312: pdf_to_markdown is called; it returns the text or None
ConvertInput ==
    /\ mpc = "convert"
    /\ \E result \in {"text", "None"} :
          IF result = "None"
          THEN /\ failed_files' = Append(failed_files, args.pdf[idx])
               /\ UNCHANGED <<successful_files, outputs>>
          ELSE /\ successful_files' = Append(successful_files, args.pdf[idx])
               /\ outputs' = (idx :> PathStr(output_file)) @@ outputs
               /\ UNCHANGED failed_files
    /\ idx' = idx + 1
    /\ mpc' = "file"
    /\ UNCHANGED <<args, output_file, exit_code, crash>>
    /\ MainUnchangedWatch

\* lines 315-320
ExitCode(failed, successful) ==
    IF failed # <<>> THEN 1 ELSE IF successful # <<>> THEN 0 ELSE 1

MainReturn ==
    /\ mpc = "file"
    /\ idx > Len(args.pdf)
    /\ exit_code' = ExitCode(failed_files, successful_files)
    /\ mpc' = "exited"
    /\ UNCHANGED <<args, idx, output_file, failed_files, successful_files, crash, outputs>>
    /\ MainUnchangedWatch

----
(***************************************************************************)
(* watch_folder                                                            *)
(***************************************************************************)
\* The PDF files other programs may put into the watched folder (a.pdf, b.pdf).
WatchFiles == {"a", "b"}

\* folder.glob("*.pdf")
Glob == {f \in WatchFiles : fs[f] # "absent"}

\* pdf_file.stat().st_size > 0
NonEmptyUnchecked(f) == TRUE

NonEmpty(f) == fs[f] = "data"

\* seen_files.add(pdf_file), lines 140 and 161
MarkSeenForgotten(f) == seen_files

MarkSeen(f) == seen_files \cup {f}

SweepPhase == {"sweep", "sweep_conv"}
LoopPhase == {"poll", "loop", "sleep", "exists", "stat", "loop_conv"}

Count(n) == IF n < MaxCalls THEN n + 1 ELSE MaxCalls

WatchUnchangedMain == UNCHANGED <<mainVars, convVars>>

\* lines 122-125: the folder is missing or not a directory
WatchInvalidFolder ==
    /\ wpc = "start"
    /\ args.watch = "nodir"
    /\ wpc' = "returned"
    /\ UNCHANGED <<fs, md_exists, seen_files, todo, cur, slept, calls, completed, late, zero_seen,
                   interrupted>>
    /\ WatchUnchangedMain

\* lines 128-139: the output directory is made, the seen set is empty, the folder
\* is listed
WatchStart ==
    /\ wpc = "start"
    /\ args.watch # "nodir"
    /\ seen_files' = {}
    /\ todo' = Glob
    /\ wpc' = "sweep"
    /\ UNCHANGED <<fs, md_exists, cur, slept, calls, completed, late, zero_seen, interrupted>>
    /\ WatchUnchangedMain

\* lines 130, 133: mkdir raises; nothing catches it
WatchMkdirRaises ==
    /\ wpc = "start"
    /\ args.watch # "nodir"
    /\ wpc' = "raised"
    /\ Uncaught("exception")
    /\ UNCHANGED <<args, idx, output_file, failed_files, successful_files, outputs>>
    /\ UNCHANGED <<fs, md_exists, seen_files, todo, cur, slept, calls, completed, late, zero_seen,
                   interrupted>>
    /\ UNCHANGED convVars

\* lines 139-144: one existing PDF: marked seen, converted when it has no output
SweepFile ==
    /\ wpc = "sweep"
    /\ \E pdf_file \in todo :
          /\ todo' = todo \ {pdf_file}
          /\ seen_files' = MarkSeen(pdf_file)
          /\ cur' = pdf_file
          /\ IF pdf_file \notin md_exists
             THEN /\ calls' = [calls EXCEPT ![pdf_file] = Count(@)]
                  /\ wpc' = "sweep_conv"
             ELSE UNCHANGED <<calls, wpc>>
    /\ UNCHANGED <<fs, md_exists, slept, completed, late, zero_seen, interrupted>>
    /\ WatchUnchangedMain

\* lines 32-110 as called from the watcher: pdf_to_markdown returns; with the text
\* the destination has been written
ConversionReturns(next) ==
    /\ \E result \in {"text", "None"} :
          md_exists' = IF result = "text" THEN md_exists \cup {cur} ELSE md_exists
    /\ completed' = [completed EXCEPT ![cur] = Count(@)]
    /\ wpc' = next
    /\ UNCHANGED <<fs, seen_files, todo, cur, slept, calls, late, zero_seen, interrupted>>
    /\ WatchUnchangedMain

\* lines 144-146
SweepConverted ==
    /\ wpc = "sweep_conv"
    /\ ConversionReturns("sweep")

\* line 148: the listing is exhausted; the try block is entered
SweepDone ==
    /\ wpc = "sweep"
    /\ todo = {}
    /\ wpc' = "poll"
    /\ UNCHANGED <<fs, md_exists, seen_files, todo, cur, slept, calls, completed, late, zero_seen,
                   interrupted>>
    /\ WatchUnchangedMain

\* lines 153-154: new_files = current_files - seen_files
Poll ==
    /\ wpc = "poll"
    /\ todo' = Glob \ seen_files
    /\ wpc' = "loop"
    /\ UNCHANGED <<fs, md_exists, seen_files, cur, slept, calls, completed, late, zero_seen,
                   interrupted>>
    /\ WatchUnchangedMain

\* line 156: the next new file; time.sleep(1) begins
LoopFile ==
    /\ wpc = "loop"
    /\ \E pdf_file \in todo :
          /\ todo' = todo \ {pdf_file}
          /\ cur' = pdf_file
    /\ slept' = FALSE
    /\ wpc' = "sleep"
    /\ UNCHANGED <<fs, md_exists, seen_files, calls, completed, late, zero_seen, interrupted>>
    /\ WatchUnchangedMain

\* line 158: time.sleep(1) ends
Settle ==
    /\ wpc = "sleep"
    /\ slept' = TRUE
    /\ wpc' = "exists"
    /\ UNCHANGED <<fs, md_exists, seen_files, todo, cur, calls, completed, late, zero_seen,
                   interrupted>>
    /\ WatchUnchangedMain

\* line 160, left operand: pdf_file.exists()
CheckExists ==
    /\ wpc = "exists"
    /\ wpc' = IF fs[cur] # "absent" THEN "stat" ELSE "loop"
    /\ UNCHANGED <<fs, md_exists, seen_files, todo, cur, slept, calls, completed, late, zero_seen,
                   interrupted>>
    /\ WatchUnchangedMain

\* lines 160-164: pdf_file.stat().st_size > 0: marked seen and the converter called
CheckSize ==
    /\ wpc = "stat"
    /\ fs[cur] # "absent"
    /\ IF NonEmpty(cur)
       THEN /\ seen_files' = MarkSeen(cur)
            /\ calls' = [calls EXCEPT ![cur] = Count(@)]
            /\ wpc' = "loop_conv"
            /\ UNCHANGED zero_seen
       ELSE /\ wpc' = "loop"
            /\ zero_seen' = zero_seen \cup {cur}
            /\ UNCHANGED <<seen_files, calls>>
    /\ UNCHANGED <<fs, md_exists, todo, cur, slept, completed, late, interrupted>>
    /\ WatchUnchangedMain

\* line 160: the file was removed after exists(): stat() raises FileNotFoundError,
\* which the except KeyboardInterrupt of line 170 does not catch
StatRaises ==
    /\ wpc = "stat"
    /\ fs[cur] = "absent"
    /\ wpc' = "raised"
    /\ Uncaught("exception")
    /\ UNCHANGED <<args, idx, output_file, failed_files, successful_files, outputs>>
    /\ UNCHANGED <<fs, md_exists, seen_files, todo, cur, slept, calls, completed, late, zero_seen,
                   interrupted>>
    /\ UNCHANGED convVars

\* lines 164-166
LoopConverted ==
    /\ wpc = "loop_conv"
    /\ ConversionReturns("loop")

\* line 168: new_files is exhausted; time.sleep(2), then the next cycle
EndCycle ==
    /\ wpc = "loop"
    /\ todo = {}
    /\ wpc' = "poll"
    /\ UNCHANGED <<fs, md_exists, seen_files, todo, cur, slept, calls, completed, late, zero_seen,
                   interrupted>>
    /\ WatchUnchangedMain

\* KeyboardInterrupt inside the try block (lines 150-168), a conversion in flight
\* included (pdf_to_markdown catches Exception only): line 170 catches it and
\* watch_folder returns
InterruptInLoop ==
    /\ wpc \in LoopPhase
    /\ interrupted' = TRUE
    /\ wpc' = "returned"
    /\ UNCHANGED <<fs, md_exists, seen_files, todo, cur, slept, calls, completed, late, zero_seen>>
    /\ WatchUnchangedMain

\* KeyboardInterrupt before the try block (lines 122-148), a conversion in flight
\* included: nothing catches it
InterruptInSweep ==
    /\ wpc \in SweepPhase \cup {"start"}
    /\ interrupted' = TRUE
    /\ wpc' = "raised"
    /\ Uncaught("interrupt")
    /\ UNCHANGED <<args, idx, output_file, failed_files, successful_files, outputs>>
    /\ UNCHANGED <<fs, md_exists, seen_files, todo, cur, slept, calls, completed, late, zero_seen>>
    /\ UNCHANGED convVars

\* line 242: watch_folder returned
MainWatchReturn ==
    /\ mpc = "watch"
    /\ wpc = "returned"
    /\ exit_code' = 0
    /\ mpc' = "exited"
    /\ UNCHANGED <<args, idx, output_file, failed_files, successful_files, crash, outputs>>
    /\ MainUnchangedWatch

\* Other programs, while the watcher runs: a PDF is created (empty or with its
\* content), written, truncated or removed.
Running == mpc = "watch" /\ wpc \in SweepPhase \cup LoopPhase

EnvCreate ==
    /\ Running
    /\ \E f \in WatchFiles, size \in {"empty", "data"} :
          /\ fs[f] = "absent"
          /\ fs' = [fs EXCEPT ![f] = size]
          /\ late' = IF wpc \in LoopPhase /\ f \notin seen_files /\ calls[f] = 0
                     THEN late \cup {f} ELSE late
    /\ UNCHANGED <<md_exists, wpc, seen_files, todo, cur, slept, calls, completed,
                   zero_seen, interrupted>>
    /\ WatchUnchangedMain

EnvWrite ==
    /\ Running
    /\ \E f \in WatchFiles, size \in {"empty", "data"} :
          /\ fs[f] \notin {"absent", size}
          /\ fs' = [fs EXCEPT ![f] = size]
    /\ UNCHANGED <<md_exists, wpc, seen_files, todo, cur, slept, calls, completed, late, zero_seen,
                   interrupted>>
    /\ WatchUnchangedMain

EnvDelete ==
    /\ Running
    /\ \E f \in WatchFiles :
          /\ fs[f] # "absent"
          /\ fs' = [fs EXCEPT ![f] = "absent"]
    /\ UNCHANGED <<md_exists, wpc, seen_files, todo, cur, slept, calls, completed, late, zero_seen,
                   interrupted>>
    /\ WatchUnchangedMain

----
(***************************************************************************)
(* Specifications                                                          *)
(***************************************************************************)
ConvIdle ==
    /\ ConvStart
    /\ output_path = NoPath
    /\ preserve_formatting = TRUE

MainIdle ==
    /\ mpc = "start"
    /\ idx = 0
    /\ output_file = NoPath
    /\ failed_files = <<>>
    /\ successful_files = <<>>
    /\ exit_code = -1
    /\ crash = ""
    /\ outputs = <<>>

WatchIdle ==
    /\ wpc = "idle"
    /\ seen_files = {}
    /\ todo = {}
    /\ cur = "a"
    /\ slept = FALSE
    /\ calls = [f \in WatchFiles |-> 0]
    /\ completed = [f \in WatchFiles |-> 0]
    /\ late = {}
    /\ zero_seen = {}
    /\ interrupted = FALSE

\* One call of pdf_to_markdown.
InitConv ==
    /\ ConvStart
    /\ output_path \in OutputPaths
    /\ preserve_formatting \in BOOLEAN
    /\ MainIdle
    /\ args = [pdf |-> <<>>, output |-> NoPath, watch |-> ""]
    /\ WatchIdle
    /\ fs = [f \in WatchFiles |-> "absent"]
    /\ md_exists = {}

SpecConv == InitConv /\ [][ConvNext]_vars

\* One run of main.  In watch mode the positional arguments are not read.
Init ==
    /\ ConvIdle
    /\ MainIdle
    /\ args \in [pdf : SeqsUpTo(InputPaths, MaxArgs), output : OutputArgs, watch : WatchArgs]
    /\ args.watch # "" => args.pdf = <<>>
    /\ WatchIdle
    /\ fs \in [WatchFiles -> {"absent", "empty", "data"}]
    /\ md_exists \in SUBSET WatchFiles
    /\ args.watch = "" => /\ fs = [f \in WatchFiles |-> "absent"]
                          /\ md_exists = {}

WatcherNext ==
    \/ WatchInvalidFolder
    \/ WatchStart
    \/ SweepFile
    \/ SweepConverted
    \/ SweepDone
    \/ Poll
    \/ LoopFile
    \/ Settle
    \/ CheckExists
    \/ CheckSize
    \/ StatRaises
    \/ LoopConverted
    \/ EndCycle
    \/ MainWatchReturn

MainNext ==
    \/ MainWatch
    \/ MainNoInput
    \/ MainBatch
    \/ ValidateInput
    \/ ResolveOutputOk
    \/ ResolveOutputRaises
    \/ ConvertInput
    \/ MainReturn

FaultNext ==
    \/ WatchMkdirRaises
    \/ InterruptInLoop
    \/ InterruptInSweep

EnvNext ==
    \/ EnvCreate
    \/ EnvWrite
    \/ EnvDelete

Next == MainNext \/ WatcherNext \/ FaultNext \/ EnvNext

Spec == Init /\ [][Next]_vars

\* The watcher is one thread that is always ready to take its next step; the
\* operating system schedules it.  Nothing is assumed about other programs or
\* the user.
FairSpec == Spec /\ WF_vars(WatcherNext)

----
(***************************************************************************)
(* Properties of pdf_to_markdown, stated for SpecConv                      *)
(***************************************************************************)
Separator == "---\n\n"

\* The whole document has been read and the text returned.
Converted == cpc = "done" /\ returned = "text"

NoMetadata == src.title = "" /\ src.author = "" /\ src.subject = ""

\* No page has a span in any line of any block, and every page's plain text is
\* empty after trimming.
NoExtractableText ==
    \A p \in 1..Len(src.pages) :
       /\ \A c \in 1..Len(src.pages[p].plain) : src.pages[p].plain[c] \in Whitespace
       /\ \A b \in 1..Len(src.pages[p].blocks) :
             \A l \in 1..Len(src.pages[p].blocks[b].lines) :
                src.pages[p].blocks[b].lines[l] = <<>>

HasImages == \E p \in 1..Len(src.pages) : src.pages[p].images > 0

\* The reference rendering that the specification describes, written from the
\* document read: emphasis by the four cases of the two style bits, bold outside
\* italic.
RefSpan(span) ==
    LET bold == (span.flags % 32) >= 16
        italic == (span.flags % 4) >= 2
    IN  CASE ~bold /\ ~italic -> span.text
          [] bold /\ ~italic  -> "**" \o span.text \o "**"
          [] ~bold /\ italic  -> "*" \o span.text \o "*"
          [] bold /\ italic   -> "**" \o ("*" \o span.text \o "*") \o "**"

RECURSIVE RefLine(_)
RefLine(spans) == IF spans = <<>> THEN "" ELSE RefSpan(Head(spans)) \o RefLine(Tail(spans))

\* the lines that hold a span, one space between them
RECURSIVE RefLines(_)
RefLines(lines) ==
    IF lines = <<>> THEN ""
    ELSE IF Head(lines) = <<>> THEN RefLines(Tail(lines))
    ELSE LET rest == RefLines(Tail(lines))
         IN  RefLine(Head(lines)) \o (IF rest = "" THEN "" ELSE " " \o rest)

RefBlock(block) ==
    IF block.text /\ RefLines(block.lines) # "" THEN RefLines(block.lines) \o "\n\n" ELSE ""

RECURSIVE RefBlocks(_)
RefBlocks(blocks) ==
    IF blocks = <<>> THEN "" ELSE RefBlock(Head(blocks)) \o RefBlocks(Tail(blocks))

RECURSIVE RefImages(_, _, _)
RefImages(p, i, n) ==
    IF i > n THEN ""
    ELSE "![image_page" \o ToString(p) \o "_" \o ToString(i) \o ".png](image_page"
         \o ToString(p) \o "_" \o ToString(i) \o ".png)\n\n" \o RefImages(p, i + 1, n)

RECURSIVE RefPages(_, _)
RefPages(pages, p) ==
    IF p > Len(pages) THEN ""
    ELSE RefBlocks(pages[p].blocks)
         \o (IF output_path # NoPath THEN RefImages(p, 1, pages[p].images) ELSE "")
         \o RefPages(pages, p + 1)

RefHeader ==
    (IF src.title # "" THEN "# " \o src.title \o "\n\n" ELSE "")
    \o (IF src.author # "" THEN "**Author:** " \o src.author \o "\n\n" ELSE "")
    \o (IF src.subject # "" THEN "**Subject:** " \o src.subject \o "\n\n" ELSE "")

\* C7 as stated: for a PDF with no extractable text and no title/author/subject,
\* pdf_to_markdown returns exactly the separator, for both values of
\* preserve_formatting and with or without a destination, embedded images or not.
C7_SeparatorOnly_Original ==
    (Converted /\ NoMetadata /\ NoExtractableText) => markdown_text = Separator

\* C7 as amended: for such a PDF the returned text is exactly the separator when no
\* destination is given or no page holds an embedded image; with a destination it
\* is the separator followed by one image reference per embedded image, in page
\* and image order.
C7_SeparatorOnly ==
    (Converted /\ NoMetadata /\ NoExtractableText) =>
        /\ (output_path = NoPath \/ ~HasImages) => markdown_text = Separator
        /\ markdown_text = Separator \o RefPages(src.pages, 1)

\* C7 witness: a document of at least one page with no metadata whose only plain
\* text is white space, and one whose page holds an image, converted.
C7_Witness ==
    /\ Converted /\ NoMetadata /\ NoExtractableText
    /\ Len(src.pages) >= 1
    /\ \/ ~preserve_formatting /\ src.pages[1].plain # <<>>
       \/ preserve_formatting /\ HasImages /\ output_path = NoPath
    /\ markdown_text = Separator

\* C8: with preserve_formatting the returned text is the header, the separator
\* and, in page, block, line and span order, every span emitted unchanged, as
\* **text**, as *text* or as ***text*** (bold outside italic) by its two style bits,
\* the spans of a line joined without separator, the lines of a block by one
\* space, each block ended by a blank line (and each page's image references
\* after its blocks when a destination is given).
C8_Formatting ==
    (Converted /\ preserve_formatting) =>
        markdown_text = RefHeader \o Separator \o RefPages(src.pages, 1)

\* C8 witness: a converted document with a line of two spans, one of them bold and
\* italic.
C8_Witness ==
    /\ Converted /\ preserve_formatting
    /\ \E p \in 1..Len(src.pages) : \E b \in 1..Len(src.pages[p].blocks) :
          \E l \in 1..Len(src.pages[p].blocks[b].lines) :
             LET line == src.pages[p].blocks[b].lines[l]
             IN  /\ Len(line) = 2
                 /\ \E k \in 1..2 : line[k].flags = 22

\* C9 as stated: once pdf_to_markdown has returned, a document handle that was
\* opened has been closed, whatever the path out of the function.
C9_HandleClosed ==
    cpc = "done" => doc # "open"

----
(***************************************************************************)
(* Properties of main and watch_folder, stated for Spec and FairSpec       *)
(***************************************************************************)
Exited == mpc = "exited"

WatchMode == args.watch # ""

\* C1 as stated: in batch mode the exit code is 0 exactly when at least one file
\* converted and none failed, and 1 when an input failed or nothing was processed;
\* in watch mode main returns 0, an invalid folder included.
C1_ExitCode ==
    Exited =>
       IF WatchMode
       THEN exit_code = 0 /\ crash = ""
       ELSE /\ exit_code = 0 <=> (successful_files # <<>> /\ failed_files = <<>>)
            /\ (failed_files # <<>> \/ successful_files = <<>>) => exit_code = 1

\* C2 as stated: no failure of validating an input, making the output location,
\* opening, reading, stat-ing or writing a file leaves the program as an uncaught
\* exception; only the user's interrupt of watch mode ends a run early.
C2_NoCrash ==
    crash # "exception"

\* C3: within one watch session the seen set only grows, a path in it is never
\* passed to the converter again, no path is converted twice, and a PDF the
\* initial sweep finds with its .md present is marked seen without conversion.
C3_AtMostOnce ==
    [][ /\ seen_files \subseteq seen_files'
        /\ \A f \in WatchFiles :
              /\ f \in seen_files => calls'[f] = calls[f]
              /\ calls'[f] <= 1
              /\ (wpc = "sweep" /\ f \in todo /\ f \notin todo' /\ f \in md_exists)
                    => (f \in seen_files' /\ calls'[f] = calls[f]) ]_vars

\* C3 witness: the polling loop is running, one PDF was converted once, is in the
\* seen set and is present with content, another was found by the sweep with
\* its output present and was not converted.
C3_Witness ==
    /\ wpc = "loop"
    /\ calls["a"] = 1 /\ completed["a"] = 1 /\ "a" \in seen_files /\ fs["a"] = "data"
    /\ calls["b"] = 0 /\ "b" \in seen_files /\ "b" \in md_exists

\* C4 as stated: in watch mode a zero-byte PDF never triggers a conversion,
\* whether the initial sweep or the polling loop finds it.
C4_ZeroByte_Original ==
    [][ \A f \in WatchFiles : calls'[f] > calls[f] => fs[f] # "empty" ]_vars

\* C4 as amended: a PDF the polling loop finds is passed to the converter only
\* after the settling delay and with a non-zero size; one it finds with size zero
\* is not marked seen, and every poll lists again each present PDF that is not
\* seen.  (The initial sweep converts without delay or size check.)
C4_ZeroByte ==
    [][ /\ \A f \in WatchFiles :
              (calls'[f] > calls[f] /\ wpc \notin SweepPhase)
                 => (cur = f /\ slept /\ fs[f] = "data")
        /\ \A f \in zero_seen' \ zero_seen :
              fs[f] = "empty" /\ f \notin seen_files' /\ calls'[f] = calls[f]
        /\ (wpc = "poll" /\ wpc' = "loop")
              => todo' = {f \in WatchFiles : fs[f] # "absent" /\ f \notin seen_files} ]_vars

\* C4 witness: a PDF that the polling loop once found with size zero is being
\* converted, for the first time.
C4_Witness ==
    /\ wpc = "loop_conv"
    /\ cur \in zero_seen
    /\ calls[cur] = 1 /\ completed[cur] = 0

\* C5 as stated: an interrupt of watch mode, whenever it arrives, makes
\* watch_folder return normally and main return 0, and every conversion that was
\* started has run to completion.
C5_CleanStop ==
    (Exited /\ interrupted) =>
        /\ exit_code = 0 /\ crash = ""
        /\ \A f \in WatchFiles : completed[f] = calls[f]

\* C6 as stated: two different inputs never resolve to the same output path; an
\* output with a suffix, or with a single input, is the output file itself, and
\* otherwise the output of an input is <stem>.md in the -o directory.
C6_DistinctOutputs ==
    /\ \A i \in DOMAIN outputs, j \in DOMAIN outputs :
          args.pdf[i] # args.pdf[j] => outputs[i] # outputs[j]
    /\ \A i \in DOMAIN outputs :
          outputs[i] =
             IF args.output = NoPath THEN args.pdf[i].stem \o ".md"
             ELSE IF args.output.suffix # "" THEN args.output.stem \o args.output.suffix
             ELSE IF Len(args.pdf) = 1 THEN args.output.stem \o ".md"
             ELSE args.output.stem \o "/" \o args.pdf[i].stem \o ".md"

\* C10 as stated: with no interrupt and the watcher scheduled fairly, every PDF
\* that first appears while the watcher polls and from some point on stays
\* present with non-zero size is eventually passed to the converter, exactly once.
C10_Liveness ==
    \A f \in WatchFiles :
       ([]~interrupted /\ <>[](f \in late /\ fs[f] = "data")) => <>[](calls[f] = 1)

====
